---------------------------- MODULE Spec2Model ----------------------------
(***************************************************************************)
(* A model of hare, the message-triggered script dispatcher:               *)
(*   src/src/main.rs         main                                          *)
(*   src/src/harehandler.rs  HareHandler (start, configure_logging,        *)
(*                           rabbitmq_loop, handle_delivery,               *)
(*                           handle_message)                               *)
(*   src/src/amqputils.rs    get_string_value                              *)
(*                                                                         *)
(* Strings are sequences of Unicode code points (Rust's chars), so that    *)
(* to_ascii_uppercase, is_alphanumeric, format! and to_string are computed *)
(* character by character as the code computes them.                       *)
(***************************************************************************)
EXTENDS Integers, Sequences, FiniteSets, TLC

(***************************************************************************)
(* Bounds of the model.                                                    *)
(***************************************************************************)
\* Deliveries the consumer yields in one run.
MaxMessages == 2
\* Entries of one message's header table.
MaxHeaders == 2

(***************************************************************************)
(* String literals of the program, as code points.                         *)
(***************************************************************************)
\* "type"
TypeLiteral == <<116, 121, 112, 101>>
\* "HARE_VAR_"
EnvPrefix == <<72, 65, 82, 69, 95, 86, 65, 82, 95>>
\* "/"
Slash == <<47>>
\* "true" and "false"
TrueText == <<116, 114, 117, 101>>
FalseText == <<102, 97, 108, 115, 101>>
\* "-" and "."
MinusText == <<45>>
DotText == <<46>>

(***************************************************************************)
(* Text of numbers: Rust's Display for the integer and float types.        *)
(***************************************************************************)
DigitChar(d) == 48 + d

RECURSIVE NatText(_)
NatText(n) ==
    IF n < 10 THEN <<DigitChar(n)>>
    ELSE Append(NatText(n \div 10), DigitChar(n % 10))

IntText(n) == IF n < 0 THEN MinusText \o NatText(0 - n) ELSE NatText(n)

\* A float is held as its number of halves h (the value h/2, exactly
\* representable in f32 and f64); Display prints the shortest decimal that
\* reads back, with no exponent and no trailing ".0".
FloatText(h) ==
    LET a == IF h < 0 THEN 0 - h ELSE h
        sign == IF h < 0 THEN MinusText ELSE <<>>
    IN  IF a % 2 = 0 THEN sign \o NatText(a \div 2)
        ELSE sign \o NatText(a \div 2) \o DotText \o <<DigitChar(5)>>

(***************************************************************************)
(* AMQP values (lapin::types::AMQPValue): one record shape for every kind, *)
(* the fields a kind does not use are left at their defaults.              *)
(***************************************************************************)
Val(kind, b, n, scale, s) ==
    [kind |-> kind, b |-> b, n |-> n, scale |-> scale, s |-> s]

BoolVal(b) == Val("Boolean", b, 0, 0, <<>>)
IntVal(kind, n) == Val(kind, FALSE, n, 0, <<>>)
DecimalVal(n, scale) == Val("DecimalValue", FALSE, n, scale, <<>>)
StrVal(kind, s) == Val(kind, FALSE, 0, 0, s)
OpaqueVal(kind) == Val(kind, FALSE, 0, 0, <<>>)

IntegerKinds ==
    {"ShortShortInt", "ShortShortUInt", "ShortInt", "ShortUInt",
     "LongInt", "LongUInt", "LongLongInt"}
FloatKinds == {"Float", "Double"}
StringKinds == {"ShortString", "LongString"}
ScalarKinds ==
    {"Boolean", "DecimalValue", "Timestamp"} \cup IntegerKinds
        \cup FloatKinds \cup StringKinds
NonScalarKinds == {"FieldArray", "FieldTable", "ByteArray", "Void"}

(***************************************************************************)
(* Option<String>.                                                         *)
(***************************************************************************)
Some(s) == [some |-> TRUE, str |-> s]
None == [some |-> FALSE, str |-> <<>>]

(***************************************************************************)
(* amqputils::get_string_value.                                            *)
(***************************************************************************)
get_string_value(value) ==
    CASE value.kind = "Boolean" ->
            Some(IF value.b THEN TrueText ELSE FalseText)
      [] value.kind = "ShortShortInt" -> Some(IntText(value.n))
      [] value.kind = "ShortShortUInt" -> Some(IntText(value.n))
      [] value.kind = "ShortInt" -> Some(IntText(value.n))
      [] value.kind = "ShortUInt" -> Some(IntText(value.n))
      [] value.kind = "LongInt" -> Some(IntText(value.n))
      [] value.kind = "LongUInt" -> Some(IntText(value.n))
      [] value.kind = "LongLongInt" -> Some(IntText(value.n))
      [] value.kind = "LongLongUInt" -> Some(IntText(value.n))
      [] value.kind = "Float" -> Some(FloatText(value.n))
      [] value.kind = "Double" -> Some(FloatText(value.n))
      \* .value is the unscaled integer of the DecimalValue; .scale is not read
      [] value.kind = "DecimalValue" -> Some(IntText(value.n))
      [] value.kind = "ShortString" -> Some(value.s)
      [] value.kind = "LongString" -> Some(value.s)
      [] value.kind = "FieldArray" -> None
      [] value.kind = "Timestamp" -> Some(IntText(value.n))
      [] value.kind = "FieldTable" -> None
      [] value.kind = "ByteArray" -> None
      [] value.kind = "Void" -> None

(***************************************************************************)
(* Characters: char::to_ascii_uppercase and char::is_alphanumeric, the     *)
(* latter over the code points below 256 (Unicode Alphabetic or Numeric).  *)
(***************************************************************************)
char_to_ascii_uppercase(c) == IF c \in 97..122 THEN c - 32 ELSE c

\* A mutant of to_ascii_uppercase: the key is left as received.
to_ascii_uppercase_identity(s) == s

to_ascii_uppercase(s) == [i \in 1..Len(s) |-> char_to_ascii_uppercase(s[i])]

is_alphanumeric(c) ==
    \/ c \in 48..57
    \/ c \in 65..90
    \/ c \in 97..122
    \/ c \in {170, 181, 186}
    \/ c \in {178, 179, 185, 188, 189, 190}
    \/ c \in (192..255) \ {215, 247}

(***************************************************************************)
(* The header table of a delivery (Option<FieldTable>) and the HeaderMap   *)
(* (HashMap<String, String>) that handle_delivery builds from it.          *)
(***************************************************************************)
EmptyMap == [k \in {} |-> <<>>]
NoHeaders == [present |-> FALSE, table |-> EmptyMap]
Headers(t) == [present |-> TRUE, table |-> t]

\* A mutant of the normalizer: a value with no string form is inserted as
\* the empty string instead of being skipped.
header_map_of_keep_all(headers) ==
    IF headers.present
      THEN [k \in DOMAIN headers.table |->
                get_string_value(headers.table[k]).str]
      ELSE EmptyMap

\* handle_delivery, lines 153-167: the loop over the table's entries.
header_map_of(headers) ==
    IF headers.present
      THEN LET t == headers.table
               kept == {k \in DOMAIN t : get_string_value(t[k]).some}
           IN  [k \in kept |-> get_string_value(t[k]).str]
      ELSE EmptyMap

(***************************************************************************)
(* handle_message: the lookup, the validation, the path, the environment.  *)
(***************************************************************************)
\* HARE_SCRIPT_ROOT as configured for the runs modelled: "/s".
script_root == <<47, 115>>

\* The key handle_message looks up: the literal "type" (line 176); the
\* configured handler_key is not read there.
lookup_key == TypeLiteral

all_alphanumeric(value) == \A i \in 1..Len(value) : is_alphanumeric(value[i])

\* format!("{}/{}", self.script_root, value)
script_path_of(value) == script_root \o Slash \o value

\* Path::exists against the file system fs (path -> kind of file).
path_exists(fs, path) == path \in DOMAIN fs

\* A mutant of the validation: every value passes.
value_accepted_any(value) == TRUE

value_accepted(value) == all_alphanumeric(value)

\* A mutant of the existence test: every path is taken to exist.
script_found_always(fs, path) == TRUE

script_found(fs, path) == path_exists(fs, path)

\* What handle_message decides before it spawns anything.
resolve(headers, fs) ==
    IF lookup_key \notin DOMAIN headers
      THEN [dispatch |-> FALSE, why |-> "no type", path |-> <<>>]
    ELSE IF ~value_accepted(headers[lookup_key])
      THEN [dispatch |-> FALSE, why |-> "not alphanumeric", path |-> <<>>]
    ELSE IF ~script_found(fs, script_path_of(headers[lookup_key]))
      THEN [dispatch |-> FALSE, why |-> "not found",
            path |-> script_path_of(headers[lookup_key])]
    ELSE [dispatch |-> TRUE, why |-> "found",
          path |-> script_path_of(headers[lookup_key])]

\* A mutant of the variable name: the prefix is dropped.
env_name_no_prefix(k) == to_ascii_uppercase(k)

\* format!("HARE_VAR_{}", k.to_ascii_uppercase())
env_name(k) == EnvPrefix \o to_ascii_uppercase(k)

\* The environments the loop of lines 193-195 can build: the HashMap is
\* iterated in an unspecified order and a later insert of the same name
\* replaces the earlier one, so a name that several keys map to holds the
\* value of any one of them.
environments(headers) ==
    LET names == {env_name(k) : k \in DOMAIN headers}
        values == {headers[k] : k \in DOMAIN headers}
    IN  {e \in [names -> values] :
            \A n \in names :
                \E k \in DOMAIN headers : env_name(k) = n /\ e[n] = headers[k]}


(***************************************************************************)
(* The inputs of the runs modelled.                                        *)
(***************************************************************************)
\* "kind", "Type", and the one-letter key U+00E9 (e with acute accent)
KindLiteral == <<107, 105, 110, 100>>
TypeCapitalized == <<84, 121, 112, 101>>
EAcuteKey == <<233>>
HeaderKeys == {TypeLiteral, TypeCapitalized, KindLiteral, EAcuteKey}

\* "d1", "b!", "..", "" and the number 7
ScriptName == <<100, 49>>
BadName == <<98, 33>>
DotDot == <<46, 46>>
HeaderValues ==
    {StrVal("ShortString", ScriptName), StrVal("LongString", BadName),
     StrVal("ShortString", DotDot), StrVal("ShortString", <<>>),
     IntVal("LongInt", 7), OpaqueVal("Void")}

Tables ==
    UNION {[S -> HeaderValues] :
             S \in {K \in SUBSET HeaderKeys : Cardinality(K) <= MaxHeaders}}
Messages == {NoHeaders} \cup {Headers(t) : t \in Tables}

\* File systems: none of the script root, or a script root (the directory
\* itself is what <root>/ and <root>/.. name) holding the files d1 and b!.
NoFiles == [p \in {} |-> "file"]
SomeFiles ==
    [p \in {script_path_of(<<>>), script_path_of(DotDot),
            script_path_of(ScriptName), script_path_of(BadName)} |->
        IF p \in {script_path_of(<<>>), script_path_of(DotDot)}
          THEN "dir" ELSE "file"]
FileSystems == {NoFiles, SomeFiles}

ExitStatuses == {0, 1}

(***************************************************************************)
(* The state.                                                              *)
(***************************************************************************)
VARIABLES
    handler_key,      \* HareHandler.handler_key (HARE_HANDLER_KEY or "type")
    log_destination,  \* HareHandler.log_destination: "none" or "file"
    fs,               \* the file system: path -> "file" or "dir"
    pc,               \* where start / rabbitmq_loop stands
    exit,             \* how main ended: "running", "Ok", "Err", "panic"
    failure,          \* the last failure the environment produced: "none",
                      \* "connect", "delivery", "ack", "spawn"
    logger,           \* the logger installed: "unset", "stdout", "file"
    delivered,        \* deliveries the consumer has yielded
    cur,              \* the delivery in hand (its header table), or NoMessage
    header_map,       \* handle_delivery's header_map for it
    invocation,       \* the script spawned for it: [some, path, env]
    hist,             \* per delivery: handled, spawned, finished, status,
                      \* acks
    arg,              \* the argument of a function applied on its own
    ret               \* its result

vars ==
    <<handler_key, log_destination, fs, pc, exit, failure, logger, delivered,
      cur, header_map, invocation, hist, arg, ret>>

config == <<handler_key, log_destination, fs>>
pure == <<arg, ret>>

NoMessage == [present |-> FALSE, table |-> EmptyMap, none |-> TRUE]
Message(m) == [present |-> m.present, table |-> m.table, none |-> FALSE]
NoInvocation == [some |-> FALSE, path |-> <<>>, env |-> EmptyMap]
Invocation(path, env) == [some |-> TRUE, path |-> path, env |-> env]
NoArg == [fn |-> "none", value |-> OpaqueVal("Void"), headers |-> NoHeaders]
NoRet == [done |-> FALSE, opt |-> None, map |-> EmptyMap]

\* The record of one delivery: whether handle_delivery has returned for it,
\* how many scripts were spawned and have exited for it, the exit status
\* (-1: none) and how many times its ack was invoked.
Fresh ==
    [handled |-> FALSE, spawned |-> 0, finished |-> 0, status |-> 0 - 1,
     acks |-> 0]

\* Control after a step: where the loop stands and how the program ended.
Ctl(p, e) == [pc |-> p, exit |-> e]
Goto(p) == Ctl(p, "running")
Go(c) == pc' = c.pc /\ exit' = c.exit

Init ==
    /\ handler_key \in {TypeLiteral, KindLiteral}
    /\ log_destination \in {"none", "file"}
    /\ fs \in FileSystems
    /\ pc = "start"
    /\ exit = "running"
    /\ failure = "none"
    /\ logger = "unset"
    /\ delivered = 0
    /\ cur = NoMessage
    /\ header_map = EmptyMap
    /\ invocation = NoInvocation
    /\ hist = <<>>
    /\ arg = NoArg
    /\ ret = NoRet

(***************************************************************************)
(* start, line 73, and configure_logging: the result is dropped by start.  *)
(***************************************************************************)
ConfigureLogging ==
    /\ pc = "start"
    /\ \/ log_destination = "none" /\ logger' = "stdout"
       \/ log_destination = "file" /\ logger' = "file"
       \* fern::log_file fails: `?` returns from configure_logging early
       \/ log_destination = "file" /\ logger' = "unset"
    /\ Go(Goto("connecting"))
    /\ UNCHANGED <<config, failure, delivered, cur, header_map, invocation,
                   hist, pure>>

(***************************************************************************)
(* rabbitmq_loop, lines 123-126: connect, create_channel, basic_consume.   *)
(***************************************************************************)
\* `?` on a lapin::Error: rabbitmq_loop, start and main return Err.
on_transport_error == Ctl("failed", "Err")

Connect ==
    /\ pc = "connecting"
    /\ \/ Go(Goto("consuming")) /\ failure' = failure
       \/ Go(on_transport_error) /\ failure' = "connect"
    /\ UNCHANGED <<config, logger, delivered, cur, header_map, invocation,
                   hist, pure>>

(***************************************************************************)
(* rabbitmq_loop, lines 128-138: consumer.next().                          *)
(***************************************************************************)
\* A mutant of the Err arm: the error is skipped and the loop goes on.
on_delivery_error_skip == Goto("consuming")

\* Err(error) => return Err(HareError::AmqpConnectionError(error))
on_delivery_error == Ctl("failed", "Err")

\* A mutant of the end of the stream: the loop fails instead of returning.
on_stream_end_failed == Ctl("failed", "Err")

\* consumer.next() is None: the while loop ends and Ok(()) is returned.
on_stream_end == Ctl("stopped", "Ok")

NextDelivery ==
    /\ pc = "consuming"
    /\ \/ /\ delivered < MaxMessages
          /\ \E m \in Messages : cur' = Message(m)
          /\ delivered' = delivered + 1
          /\ hist' = Append(hist, Fresh)
          /\ Go(Goto("handling"))
          /\ failure' = failure
       \/ /\ Go(on_delivery_error)
          /\ failure' = "delivery"
          /\ UNCHANGED <<delivered, cur, hist>>
       \/ /\ Go(on_stream_end)
          /\ UNCHANGED <<failure, delivered, cur, hist>>
    /\ UNCHANGED <<config, logger, header_map, invocation, pure>>

(***************************************************************************)
(* handle_delivery and handle_message up to the point where the script has *)
(* been spawned (Command::output) or the message has been skipped.         *)
(***************************************************************************)
\* Whether the operating system can start the file at path: never a
\* directory or a missing file; a regular file may still fail to start
\* (not executable, no memory, ...), see HandleDelivery.
can_spawn(files, path) == path \in DOMAIN files /\ files[path] = "file"

\* A mutant of the wait for the child: the script is spawned and not
\* waited for, handle_message returns at once.
on_spawned_no_wait == Goto("acking")

\* Command::output blocks the task until the child has exited.
on_spawned == Goto("executing")

\* A mutant of the spawn failure: the error is logged and the message is
\* handled like a skipped one.
on_spawn_failure_logged == Goto("acking")

\* .expect("failed to execute script") panics.
on_spawn_failure == Ctl("panicked", "panic")

\* handle_message returned (its result is dropped), handle_delivery returns
\* Ok(()) and the loop goes on to the acknowledgment.
on_handled == Goto("acking")

HandleDelivery ==
    /\ pc = "handling"
    /\ LET hm == header_map_of(cur)
           r == resolve(hm, fs)
       IN  /\ header_map' = hm
           /\ IF r.dispatch
                THEN \E env \in environments(hm) :
                        \/ /\ can_spawn(fs, r.path)
                           /\ invocation' = Invocation(r.path, env)
                           /\ hist' = [hist EXCEPT ![delivered].spawned = 1]
                           /\ Go(on_spawned)
                           /\ failure' = failure
                        \/ /\ invocation' = Invocation(r.path, env)
                           /\ hist' = hist
                           /\ Go(on_spawn_failure)
                           /\ failure' = "spawn"
                ELSE /\ invocation' = NoInvocation
                     /\ hist' = [hist EXCEPT ![delivered].handled = TRUE]
                     /\ Go(on_handled)
                     /\ failure' = failure
    /\ UNCHANGED <<config, logger, delivered, cur, pure>>

(***************************************************************************)
(* handle_message, lines 197-201: the child exits, output() returns, the   *)
(* standard output is logged; exit status and standard error are not read. *)
(***************************************************************************)
\* A mutant of the exit handling: a non-zero status is made an error.
on_script_exit_checked(status) ==
    IF status = 0 THEN Goto("acking") ELSE Ctl("failed", "Err")

on_script_exit(status) == on_handled

ScriptExit ==
    /\ pc = "executing"
    /\ \E status \in ExitStatuses :
          /\ hist' = [hist EXCEPT ![delivered].finished = 1,
                                  ![delivered].status = status,
                                  ![delivered].handled = TRUE]
          /\ Go(on_script_exit(status))
    /\ UNCHANGED <<config, failure, logger, delivered, cur, header_map,
                   invocation, pure>>

(***************************************************************************)
(* rabbitmq_loop, line 132: delivery.ack(...).await?                       *)
(***************************************************************************)
acks_after(h) == h.acks + 1

\* A mutant of the `?` on the acknowledgment: the error is dropped and the
\* loop goes on.
on_ack_error_ignored == Goto("acked")

\* `?` on the lapin::Error of delivery.ack: the loop returns Err.
on_ack_error == on_transport_error

Ack ==
    /\ pc = "acking"
    /\ hist' = [hist EXCEPT ![delivered].acks = acks_after(hist[delivered])]
    /\ \/ Go(Goto("acked")) /\ failure' = failure
       \/ Go(on_ack_error) /\ failure' = "ack"
    /\ UNCHANGED <<config, logger, delivered, cur, header_map, invocation,
                   pure>>

(***************************************************************************)
(* rabbitmq_loop, line 133: the iteration ends, the delivery and the       *)
(* locals of the iteration are dropped, the loop waits for the next item.  *)
(***************************************************************************)
LoopBack ==
    /\ pc = "acked"
    /\ cur' = NoMessage
    /\ header_map' = EmptyMap
    /\ invocation' = NoInvocation
    /\ Go(Goto("consuming"))
    /\ UNCHANGED <<config, failure, logger, delivered, hist, pure>>

Next ==
    \/ ConfigureLogging
    \/ Connect
    \/ NextDelivery
    \/ HandleDelivery
    \/ ScriptExit
    \/ Ack
    \/ LoopBack

Spec == Init /\ [][Next]_vars

(***************************************************************************)
(* The dispatcher with its scheduling.  rabbitmq_loop is the one task of   *)
(* main's runtime, so each step of its own is taken once it can be:        *)
(* start runs configure_logging and then connects (lines 72-76, 123-126),  *)
(* a delivery in hand is handled (131), then acknowledged (132), then the  *)
(* loop goes back to consumer.next() (128).  ScriptExit is fair under the  *)
(* hypothesis that a started script terminates: output() (197-200) then    *)
(* returns.  NextDelivery is the broker's step and has no fairness.        *)
(***************************************************************************)
Fairness ==
    /\ WF_vars(ConfigureLogging)
    /\ WF_vars(Connect)
    /\ WF_vars(HandleDelivery)
    /\ WF_vars(ScriptExit)
    /\ WF_vars(Ack)
    /\ WF_vars(LoopBack)

FairSpec == Init /\ [][Next]_vars /\ Fairness


(***************************************************************************)
(* get_string_value and the normalizer of handle_delivery applied on their *)
(* own, to values of every kind.                                           *)
(***************************************************************************)
\* "zz"
OtherName == <<122, 122>>

SampleValues ==
    {BoolVal(TRUE), BoolVal(FALSE),
     IntVal("ShortShortInt", 0 - 128), IntVal("ShortShortInt", 127),
     IntVal("ShortShortUInt", 255),
     IntVal("ShortInt", 0 - 32768), IntVal("ShortUInt", 65535),
     IntVal("LongInt", 0 - 2147483647), IntVal("LongUInt", 2147483647),
     IntVal("LongLongInt", 0 - 5), IntVal("LongLongInt", 1000000),
     IntVal("Float", 0 - 1), IntVal("Float", 3), IntVal("Float", 4),
     IntVal("Double", 1), IntVal("Double", 0),
     DecimalVal(150, 0), DecimalVal(150, 2), DecimalVal(5, 3),
     StrVal("ShortString", ScriptName), StrVal("ShortString", <<>>),
     StrVal("LongString", BadName), StrVal("LongString", OtherName),
     IntVal("Timestamp", 0), IntVal("Timestamp", 1700000000),
     OpaqueVal("FieldArray"), OpaqueVal("FieldTable"),
     OpaqueVal("ByteArray"), OpaqueVal("Void")}

SampleTables ==
    UNION {[S -> SampleValues] :
             S \in {K \in SUBSET {TypeLiteral, KindLiteral} :
                        Cardinality(K) <= MaxHeaders}}
SampleHeaders == {NoHeaders} \cup {Headers(t) : t \in SampleTables}

InitPure ==
    /\ handler_key = TypeLiteral
    /\ log_destination = "none"
    /\ fs = NoFiles
    /\ pc = "pure"
    /\ exit = "running"
    /\ failure = "none"
    /\ logger = "unset"
    /\ delivered = 0
    /\ cur = NoMessage
    /\ header_map = EmptyMap
    /\ invocation = NoInvocation
    /\ hist = <<>>
    /\ \/ \E v \in SampleValues :
             arg = [fn |-> "get_string_value", value |-> v,
                    headers |-> NoHeaders]
       \/ \E h \in SampleHeaders :
             arg = [fn |-> "header_map_of", value |-> OpaqueVal("Void"),
                    headers |-> h]
    /\ ret = NoRet

ApplyCoercion ==
    /\ pc = "pure"
    /\ arg.fn = "get_string_value"
    /\ ~ret.done
    /\ ret' = [done |-> TRUE, opt |-> get_string_value(arg.value),
               map |-> EmptyMap]
    /\ UNCHANGED <<config, pc, exit, failure, logger, delivered, cur,
                   header_map, invocation, hist, arg>>

ApplyNormalizer ==
    /\ pc = "pure"
    /\ arg.fn = "header_map_of"
    /\ ~ret.done
    /\ ret' = [done |-> TRUE, opt |-> None,
               map |-> header_map_of(arg.headers)]
    /\ UNCHANGED <<config, pc, exit, failure, logger, delivered, cur,
                   header_map, invocation, hist, arg>>

NextPure == ApplyCoercion \/ ApplyNormalizer

SpecPure == InitPure /\ [][NextPure]_vars

(***************************************************************************)
(* Properties.                                                             *)
(***************************************************************************)
\* The loop is past delivery i: a later delivery was taken, or the loop is
\* past the acknowledgment of the last one, or the program has ended.
PastDelivery(i) ==
    i < delivered \/ pc \in {"acked", "consuming", "stopped", "failed", "panicked"}

\* The acknowledgment of delivery i is invoked at most once, and only after
\* handle_delivery has returned for it and every script spawned for it has
\* exited.
AckOnlyAfterProcessing(i) ==
    /\ hist[i].acks <= 1
    /\ hist[i].acks = 1 =>
          hist[i].handled /\ hist[i].finished = hist[i].spawned

\* C1, as stated: every delivery is acknowledged exactly once, and only after
\* its processing (normalize, resolve, script run if any) has completed.
C1_EveryDeliveryAckedOnce ==
    \A i \in 1..delivered :
        /\ AckOnlyAfterProcessing(i)
        /\ PastDelivery(i) => hist[i].acks = 1

\* C1, amended: every delivery whose processing returns is acknowledged
\* exactly once, only after that processing has completed (script run or
\* skip); the one delivery whose script could not be spawned is never
\* acknowledged, the program having panicked in handle_message.
C1_AckOnceAfterProcessing ==
    \A i \in 1..delivered :
        /\ AckOnlyAfterProcessing(i)
        /\ PastDelivery(i) /\ ~(pc = "panicked" /\ i = delivered) =>
              hist[i].acks = 1
        /\ pc = "panicked" /\ i = delivered =>
              hist[i].acks = 0 /\ ~hist[i].handled /\ failure = "spawn"

\* Two deliveries acknowledged once each, one after its script has exited
\* and one after a skip.
C1_Witness ==
    \E i, j \in 1..delivered :
        /\ hist[i].acks = 1 /\ hist[i].spawned = 1 /\ hist[i].finished = 1
        /\ hist[j].acks = 1 /\ hist[j].spawned = 0 /\ hist[j].handled


(***************************************************************************)
(* The cases of a delivery, read off the delivery itself.                  *)
(***************************************************************************)
\* The delivery in hand carries a type header with a string form.
HasTypeText(m) ==
    /\ m.present
    /\ TypeLiteral \in DOMAIN m.table
    /\ m.table[TypeLiteral].kind \in ScalarKinds

\* The string form of its type header.
TypeText(m) == get_string_value(m.table[TypeLiteral]).str

\* No table, no type header in the normalized map, or a type value with a
\* character that is not alphanumeric.
Unroutable(m) ==
    \/ ~m.present
    \/ ~HasTypeText(m)
    \/ \E i \in 1..Len(TypeText(m)) : ~is_alphanumeric(TypeText(m)[i])

\* An alphanumeric type value with no file at <script_root>/<value>.
ScriptMissing(m) ==
    /\ HasTypeText(m)
    /\ \A i \in 1..Len(TypeText(m)) : is_alphanumeric(TypeText(m)[i])
    /\ script_root \o Slash \o TypeText(m) \notin DOMAIN fs

\* The delivery in hand is skipped: no script is spawned or attempted for it,
\* handling it ends neither the loop nor the program, and its acknowledgment
\* is invoked once handle_delivery has returned (the only failure that can
\* follow is that of the acknowledgment itself).
SkippedAndAcked ==
    /\ hist[delivered].spawned = 0
    /\ ~invocation.some
    /\ pc \in {"handling", "acking", "acked", "failed"}
    /\ pc \in {"handling", "acking"} => hist[delivered].acks = 0
    /\ pc \in {"handling", "acking", "acked"} => exit = "running"
    /\ pc \in {"acked", "failed"} => hist[delivered].acks = 1
    /\ pc = "failed" => failure = "ack"

\* C2: a delivery with no header table, with no type header in the
\* normalized map, or with a type value that has a non-alphanumeric
\* character runs no script, does not end the loop, and is acknowledged.
C2_UnroutableSkippedAndAcked ==
    ~cur.none /\ Unroutable(cur) => SkippedAndAcked

\* A delivery typed "b!" (a file of that name exists under the script root)
\* has been skipped and acknowledged.
C2_Witness ==
    /\ pc = "acked"
    /\ HasTypeText(cur)
    /\ TypeText(cur) = BadName
    /\ script_path_of(BadName) \in DOMAIN fs
    /\ hist[delivered].acks = 1
    /\ hist[delivered].spawned = 0

\* C3: a delivery whose type value is alphanumeric but names no file under
\* the script root runs no script, does not end the loop, and is
\* acknowledged.
C3_MissingScriptSkippedAndAcked ==
    ~cur.none /\ ScriptMissing(cur) => SkippedAndAcked

\* A delivery typed 7 (no such file, the script root exists) has been
\* skipped and acknowledged.
C3_Witness ==
    /\ pc = "acked"
    /\ ScriptMissing(cur)
    /\ fs = SomeFiles
    /\ hist[delivered].acks = 1
    /\ hist[delivered].spawned = 0


(***************************************************************************)
(* The environment handed to the script.                                   *)
(***************************************************************************)
\* A script is running, or has run, for the delivery in hand.
ScriptInvoked == pc \in {"executing", "acking", "acked"} /\ invocation.some

\* The script was resolved from the type header and spawned once.
InvokedOnceFromType ==
    /\ hist[delivered].spawned = 1
    /\ TypeLiteral \in DOMAIN header_map
    /\ invocation.path = script_root \o Slash \o header_map[TypeLiteral]

\* C4, as stated: the script runs once with one HARE_VAR_ variable per
\* entry of the HeaderMap, each holding that header's value: as many
\* variables as entries, no value lost.
C4_OneVariablePerHeader ==
    ScriptInvoked =>
        /\ InvokedOnceFromType
        /\ Cardinality(DOMAIN invocation.env) = Cardinality(DOMAIN header_map)
        /\ \A k \in DOMAIN header_map :
              /\ EnvPrefix \o to_ascii_uppercase(k) \in DOMAIN invocation.env
              /\ invocation.env[EnvPrefix \o to_ascii_uppercase(k)]
                    = header_map[k]

\* No two keys of the HeaderMap differ only in the case of ASCII letters.
NoCaseCollision ==
    \A k1, k2 \in DOMAIN header_map :
        to_ascii_uppercase(k1) = to_ascii_uppercase(k2) => k1 = k2

\* C4, amended: the script runs once with one HARE_VAR_ variable per
\* distinct upper-cased key of the HeaderMap; each variable holds the value
\* of a header with that upper-cased key. When no two keys differ only in
\* letter case there are as many variables as entries and each holds its
\* header's value; keys that differ only in letter case share one variable,
\* which holds the value of one of them.
C4_OneVariablePerUppercasedKey ==
    ScriptInvoked =>
        /\ InvokedOnceFromType
        /\ DOMAIN invocation.env
              = {EnvPrefix \o to_ascii_uppercase(k) : k \in DOMAIN header_map}
        /\ \A n \in DOMAIN invocation.env :
              \E k \in DOMAIN header_map :
                  /\ n = EnvPrefix \o to_ascii_uppercase(k)
                  /\ invocation.env[n] = header_map[k]
        /\ NoCaseCollision =>
              /\ Cardinality(DOMAIN invocation.env)
                    = Cardinality(DOMAIN header_map)
              /\ \A k \in DOMAIN header_map :
                    invocation.env[EnvPrefix \o to_ascii_uppercase(k)]
                        = header_map[k]

\* The script d1 is running with two variables for two headers.
C4_Witness ==
    /\ pc = "executing"
    /\ NoCaseCollision
    /\ Cardinality(DOMAIN header_map) = 2
    /\ Cardinality(DOMAIN invocation.env) = 2
    /\ invocation.path = script_path_of(ScriptName)

\* Upper-casing of a letter of Latin-1, as Unicode defines it (the sharp s,
\* whose upper case is two letters, is left alone here).
UnicodeUpperChar(c) ==
    IF c \in 97..122 THEN c - 32
    ELSE IF c \in (224..254) \ {247} THEN c - 32
    ELSE IF c = 255 THEN 376
    ELSE IF c = 181 THEN 924
    ELSE c
UnicodeUpper(s) == [i \in 1..Len(s) |-> UnicodeUpperChar(s[i])]

\* Upper-casing of the letters a-z only.
AsciiUpper(s) ==
    [i \in 1..Len(s) |-> IF s[i] >= 97 /\ s[i] <= 122 THEN s[i] - 32 ELSE s[i]]

\* The HeaderMap keeps the keys of the table as received.
KeysAsReceived == DOMAIN header_map \subseteq DOMAIN cur.table

\* C5, as stated: the variable of header key k is named HARE_VAR_ followed
\* by k upper-cased, whatever the casing of k; the HeaderMap keeps k as
\* received.
C5_NameIsUppercasedKey ==
    ScriptInvoked =>
        /\ \A k \in DOMAIN header_map :
              EnvPrefix \o UnicodeUpper(k) \in DOMAIN invocation.env
        /\ KeysAsReceived

\* C5, amended: the variable of header key k is named HARE_VAR_ followed by
\* k with its ASCII letters a-z upper-cased and every other character
\* (a non-ASCII letter included) unchanged; the HeaderMap keeps k as
\* received.
C5_NameIsAsciiUppercasedKey ==
    ScriptInvoked =>
        /\ DOMAIN invocation.env
              = {EnvPrefix \o AsciiUpper(k) : k \in DOMAIN header_map}
        /\ KeysAsReceived

\* A script is running for a delivery with the header Type, kept as Type in
\* the HeaderMap and named HARE_VAR_TYPE in the environment.
C5_Witness ==
    /\ pc = "executing"
    /\ TypeCapitalized \in DOMAIN header_map
    /\ EnvPrefix \o <<84, 89, 80, 69>> \in DOMAIN invocation.env
    /\ EnvPrefix \o TypeCapitalized \notin DOMAIN invocation.env


(***************************************************************************)
(* Failures.                                                               *)
(***************************************************************************)
\* C6: when the consumer yields an error the loop stops and the program
\* ends with Err; from then on no delivery is taken, normalized, dispatched
\* or acknowledged.
C6_DeliveryErrorIsFatal ==
    [][/\ failure' = "delivery" => pc' = "failed" /\ exit' = "Err"
       /\ failure = "delivery" =>
             UNCHANGED <<pc, exit, delivered, cur, header_map, invocation,
                         hist>>]_vars

\* The consumer has yielded an error after one delivery, with the bound on
\* deliveries not yet reached.
C6_Witness ==
    /\ failure = "delivery"
    /\ pc = "failed"
    /\ exit = "Err"
    /\ delivered = 1
    /\ delivered < MaxMessages
    /\ hist[1].acks = 1

\* The type value of the HeaderMap h is dispatchable: alphanumeric, naming
\* an existing file.
Dispatchable(h, key) ==
    /\ key \in DOMAIN h
    /\ \A i \in 1..Len(h[key]) : is_alphanumeric(h[key][i])
    /\ script_root \o Slash \o h[key] \in DOMAIN fs
    /\ fs[script_root \o Slash \o h[key]] = "file"

\* C7: the script is selected by the configured handler key: a script runs
\* only for a delivery that has that header, it is the script that header
\* names, and a delivery whose header of that key is dispatchable is
\* dispatched.
C7_DispatchByConfiguredKey ==
    /\ ScriptInvoked =>
          /\ handler_key \in DOMAIN header_map
          /\ invocation.path = script_root \o Slash \o header_map[handler_key]
    /\ pc \in {"acking", "acked"} /\ Dispatchable(header_map, handler_key) =>
          invocation.some

\* C10: the exit status of a script is not looked at: once a script has
\* exited, with whatever status, handle_delivery has returned, the program
\* goes on to the acknowledgment, the delivery is acknowledged once, and the
\* program fails only on a failure of the transport.
C10_ExitStatusIgnored ==
    \A i \in 1..delivered :
        hist[i].finished = 1 =>
            /\ hist[i].handled
            /\ hist[i].status \in ExitStatuses
            /\ i = delivered => pc # "executing"
            /\ i = delivered /\ pc = "acking" =>
                  exit = "running" /\ hist[i].acks = 0
            /\ PastDelivery(i) => hist[i].acks = 1
            /\ exit # "running" /\ i = delivered =>
                  failure \in {"ack", "delivery"} \/ pc = "stopped"

\* A script has exited with status 1, its delivery was acknowledged, and the
\* loop has taken the next delivery.
C10_Witness ==
    /\ delivered = 2
    /\ hist[1].status = 1
    /\ hist[1].acks = 1
    /\ pc = "handling"


(***************************************************************************)
(* Value Coercion and the Header Normalizer.                               *)
(***************************************************************************)
RECURSIVE Pow10(_)
Pow10(s) == IF s = 0 THEN 1 ELSE 10 * Pow10(s - 1)

\* The digits of n, padded with zeros on the left to at least w digits.
RECURSIVE PaddedNatText(_, _)
PaddedNatText(n, w) ==
    IF Len(NatText(n)) >= w THEN NatText(n)
    ELSE <<DigitChar(0)>> \o PaddedNatText(n, w - 1)

\* The text of the decimal with unscaled integer n and scale s, that is of
\* n / 10^s: 150 at scale 2 is "1.50".
DecimalText(n, s) ==
    IF s = 0 THEN NatText(n)
    ELSE NatText(n \div Pow10(s)) \o DotText
            \o PaddedNatText(n % Pow10(s), s)

\* The exact literal or base-10 text of a scalar value.
ExactText(v) ==
    IF v.kind = "Boolean" THEN (IF v.b THEN TrueText ELSE FalseText)
    ELSE IF v.kind \in IntegerKinds \cup {"Timestamp"} THEN IntText(v.n)
    ELSE IF v.kind \in FloatKinds THEN FloatText(v.n)
    ELSE IF v.kind = "DecimalValue" THEN DecimalText(v.n, v.scale)
    ELSE v.s

\* C8: Value Coercion returns the exact text of every scalar value, and no
\* value for an array, a nested table, a byte blob or void.
C8_CoercionIsExactText ==
    ret.done /\ arg.fn = "get_string_value" =>
        IF arg.value.kind \in NonScalarKinds
          THEN ret.opt = None
          ELSE ret.opt = Some(ExactText(arg.value))

\* C9: the HeaderMap of a table holds no key whose value is an array, a
\* nested table, a byte blob or void, and holds every other key of the table
\* (a map holds a key once) with the coerced text of its value; it holds
\* nothing else, and an absent table gives the empty map.
C9_HeaderMapIsTheScalarEntries ==
    ret.done /\ arg.fn = "header_map_of" =>
        IF ~arg.headers.present THEN DOMAIN ret.map = {}
        ELSE /\ DOMAIN ret.map \subseteq DOMAIN arg.headers.table
             /\ \A k \in DOMAIN arg.headers.table :
                   IF arg.headers.table[k].kind \in NonScalarKinds
                     THEN k \notin DOMAIN ret.map
                     ELSE /\ k \in DOMAIN ret.map
                          /\ Some(ret.map[k])
                                = get_string_value(arg.headers.table[k])

\* A table with a byte blob under type and a number under kind has been
\* normalized to the one entry kind.
C9_Witness ==
    /\ ret.done
    /\ arg.fn = "header_map_of"
    /\ arg.headers.present
    /\ DOMAIN arg.headers.table = {TypeLiteral, KindLiteral}
    /\ arg.headers.table[TypeLiteral].kind = "ByteArray"
    /\ arg.headers.table[KindLiteral].kind = "ShortUInt"
    /\ DOMAIN ret.map = {KindLiteral}


(***************************************************************************)
(* Fatal conditions and the ends of the program.                           *)
(***************************************************************************)
\* C11: a script that cannot be spawned ends the whole program at once (a
\* panic, not an Err and not a skip): its delivery is not acknowledged, and
\* from then on nothing is taken, handled or acknowledged.
C11_SpawnFailureIsFatal ==
    [][/\ failure' = "spawn" =>
             /\ pc' = "panicked"
             /\ exit' = "panic"
             /\ hist'[delivered'].acks = 0
             /\ ~hist'[delivered'].handled
       /\ failure = "spawn" =>
             UNCHANGED <<pc, exit, delivered, cur, header_map, invocation,
                         hist>>]_vars

\* The first of the deliveries could not be spawned: the program has
\* panicked with that delivery unacknowledged and the bound not reached.
C11_Witness ==
    /\ failure = "spawn"
    /\ pc = "panicked"
    /\ delivered = 1
    /\ delivered < MaxMessages
    /\ hist[1].acks = 0
    /\ invocation.some
    /\ fs[invocation.path] = "file"

\* configure_logging has failed: the log file could not be opened.
LoggingSetupFailed ==
    log_destination = "file" /\ logger = "unset" /\ pc # "start"

\* C12: a failure to set up logging ends the program with a failure before
\* it connects to the broker or consumes anything.
C12_LoggingFailureIsFatal ==
    LoggingSetupFailed =>
        /\ pc = "failed"
        /\ exit = "Err"
        /\ delivered = 0

\* C13, as stated: once consuming, the loop never ends with success; the
\* only terminal state is Failed, reached from connecting or from a delivery
\* error; the end of the stream does not make the loop return.
C13_NoStoppedState ==
    /\ exit # "Ok"
    /\ pc # "stopped"
    /\ exit # "running" =>
          pc = "failed" /\ failure \in {"connect", "delivery"}

\* C13, amended: the program ends in exactly three ways. Failed (Err): from
\* connecting, from a delivery error or from a failed acknowledgment.
\* Panicked: from a script that could not be spawned. Stopped with success:
\* only when the consumer's stream ends (consumer.next() yields None), with
\* no delivery in hand and every delivery taken acknowledged once.
C13_EndsOfTheProgram ==
    /\ exit = "running" <=> pc \notin {"failed", "panicked", "stopped"}
    /\ exit = "Err" <=> pc = "failed"
    /\ exit = "panic" <=> pc = "panicked"
    /\ exit = "Ok" <=> pc = "stopped"
    /\ pc = "failed" => failure \in {"connect", "delivery", "ack"}
    /\ pc = "panicked" => failure = "spawn"
    /\ pc = "stopped" =>
          /\ failure = "none"
          /\ cur.none
          /\ \A i \in 1..delivered : hist[i].acks = 1

\* The stream has ended after one delivery: the loop has returned Ok.
C13_Witness ==
    /\ pc = "stopped"
    /\ exit = "Ok"
    /\ delivered = 1
    /\ hist[1].acks = 1


(***************************************************************************)
(* One delivery at a time; what reaches the executor.                      *)
(***************************************************************************)
\* The deliveries with a script spawned and not yet exited.
Running == {i \in 1..delivered : hist[i].spawned > hist[i].finished}

\* C14: deliveries are processed one at a time in the order delivered: when a
\* delivery is in hand, every earlier one has been handled, its script (if
\* any) has exited and it has been acknowledged; at most one script runs at
\* any moment, that of the delivery in hand, and the loop is then blocked on
\* it.
C14_OneDeliveryAtATime ==
    /\ Len(hist) = delivered
    /\ \A i \in 1..delivered :
          i < delivered =>
              /\ hist[i].handled
              /\ hist[i].finished = hist[i].spawned
              /\ hist[i].acks = 1
    /\ Cardinality(Running) <= 1
    /\ Running \subseteq {delivered}
    /\ Running # {} <=> pc = "executing"

\* The second delivery's script is running; the first one's has exited and
\* the first delivery is acknowledged.
C14_Witness ==
    /\ delivered = 2
    /\ pc = "executing"
    /\ Running = {2}
    /\ hist[1].spawned = 1
    /\ hist[1].finished = 1
    /\ hist[1].acks = 1

\* The characters of path traversal: '.' and '/'.
HasDotOrSlash(s) == \E i \in 1..Len(s) : s[i] \in {46, 47}

\* C15: every path handed to the executor (spawned or attempted) is
\* <script_root>/<value> with <value> the type header's value, all of whose
\* characters are alphanumeric; a value with '.' or '/' is never made a path
\* and never executed.
C15_NoPathTraversal ==
    /\ invocation.some =>
          /\ TypeLiteral \in DOMAIN header_map
          /\ invocation.path = script_root \o Slash \o header_map[TypeLiteral]
          /\ \A i \in 1..Len(header_map[TypeLiteral]) :
                is_alphanumeric(header_map[TypeLiteral][i])
          /\ ~HasDotOrSlash(header_map[TypeLiteral])
    /\ ~cur.none /\ HasTypeText(cur) /\ HasDotOrSlash(TypeText(cur)) =>
          ~invocation.some /\ hist[delivered].spawned = 0

\* A delivery typed ".." has been skipped and acknowledged although
\* <script_root>/.. exists.
C15_Witness ==
    /\ pc = "acked"
    /\ HasTypeText(cur)
    /\ TypeText(cur) = DotDot
    /\ script_root \o Slash \o DotDot \in DOMAIN fs
    /\ ~invocation.some
    /\ hist[delivered].acks = 1

\* C16: a path is handed to the executor only when a file exists at
\* <script_root>/<value>; a type header that is the empty string (the path
\* is then the script root itself) leads to no execution attempt and the
\* delivery is acknowledged.
C16_OnlyFilesAreExecuted ==
    /\ invocation.some =>
          invocation.path \in DOMAIN fs /\ fs[invocation.path] = "file"
    /\ ~cur.none /\ HasTypeText(cur) /\ TypeText(cur) = <<>> =>
          SkippedAndAcked


(***************************************************************************)
(* Decimals.                                                               *)
(***************************************************************************)
\* The decimal values among the samples.
SampleDecimals == {v \in SampleValues : v.kind = "DecimalValue"}

\* C18: the coercion of a decimal with unscaled integer v and scale s is the
\* text of v / 10^s, and a decimal with the same v and another scale coerces
\* to another string.
C18_DecimalIsScaleAdjusted ==
    ret.done /\ arg.fn = "get_string_value" /\ arg.value \in SampleDecimals =>
        /\ ret.opt = Some(DecimalText(arg.value.n, arg.value.scale))
        /\ \A d \in SampleDecimals :
              d.n = arg.value.n /\ d.scale # arg.value.scale =>
                  get_string_value(d) # ret.opt


(***************************************************************************)
(* Progress.                                                               *)
(***************************************************************************)
\* No script fails to spawn and the transport reports no error on a
\* delivery or on an acknowledgment.
NoFault == failure \notin {"spawn", "delivery", "ack"}

\* The loop holds a delivery: it is between consumer.next() and the return
\* to it.
InHand == pc \in {"handling", "executing", "acking", "acked"}

\* C19: when every started script terminates, no spawn fails and the
\* transport reports no error on a delivery or an acknowledgment, every
\* delivery taken from the consumer is eventually acknowledged and the loop
\* eventually waits for the next message again.
C19_EveryDeliveryEventuallyAcked ==
    []NoFault =>
        /\ \A i \in 1..MaxMessages :
              (delivered >= i) ~> (delivered >= i /\ hist[i].acks = 1)
        /\ InHand ~> (pc = "consuming")

\* Two deliveries have been taken and acknowledged, the first after its
\* script ran, and the loop waits again; nothing has failed.
C19_Witness ==
    /\ failure = "none"
    /\ delivered = 2
    /\ hist[1].spawned = 1
    /\ hist[1].finished = 1
    /\ hist[1].acks = 1
    /\ hist[2].acks = 1
    /\ pc = "consuming"


(***************************************************************************)
(* A failed acknowledgment.                                                *)
(***************************************************************************)
\* C20: a failure of the acknowledgment call ends the loop with a failure
\* result in that very step: the delivery's processing is complete and its
\* script, if any, has run once and exited; afterwards nothing more is
\* taken, handled, run or acknowledged.
C20_AckFailureIsFatal ==
    [][/\ failure' = "ack" /\ failure # "ack" =>
              /\ pc = "acking"
              /\ pc' = "failed"
              /\ exit' = "Err"
              /\ delivered' = delivered
              /\ hist'[delivered].handled
              /\ hist'[delivered].spawned <= 1
              /\ hist'[delivered].finished = hist'[delivered].spawned
              /\ hist'[delivered].spawned = hist[delivered].spawned
       /\ failure = "ack" =>
              UNCHANGED <<pc, exit, delivered, cur, header_map, invocation,
                          hist>>]_vars

\* The acknowledgment of the first delivery, whose script ran and exited,
\* failed and the loop has ended while the broker had more to deliver.
C20_Witness ==
    /\ failure = "ack"
    /\ pc = "failed"
    /\ exit = "Err"
    /\ delivered = 1
    /\ delivered < MaxMessages
    /\ hist[1].spawned = 1
    /\ hist[1].finished = 1


=============================================================================
